---------------------------- MODULE Spec2Model ----------------------------
(***************************************************************************)
(* Model of cmd/linuxkit/run_qemu.go: the port-spec parser, the two        *)
(* forwarding builders, backend discovery, the qemu argument builder and   *)
(* the local and containerized runners.                                    *)
(*                                                                         *)
(* A Go string is modelled as a sequence of one-character strings, so that *)
(* strings.Split, strconv.Atoi, strings.ToLower, strings.TrimSpace and     *)
(* fmt.Sprintf("%d") are computed character by character.                  *)
(***************************************************************************)
EXTENDS Integers, Sequences, FiniteSets, TLC

VARIABLES
    pc,          \* position of the run: see the actions below
    config,      \* the QemuConfig value threaded through the run
    args,        \* qemu argument list returned by buildQemuCmdline
    dockerArgs,  \* docker argument list assembled by runQemuContainer
    wd,          \* working directory mounted by runQemuContainer
    spawned,     \* subprocesses run so far, in order (exec.Command(...).Run())
    err,         \* error the run ended with ("" while none)
    env,         \* what the environment answered to the probes made so far
    ppc,         \* parser harness: position
    pin,         \* parser harness: list of raw port specs
    pcont,       \* parser harness: the containerized argument
    pout         \* parser harness: result of the applied function

vars == <<pc, config, args, dockerArgs, wd, spawned, err, env, ppc, pin, pcont, pout>>

runVars == <<pc, config, args, dockerArgs, wd, spawned, err, env>>

parseVars == <<ppc, pin, pcont, pout>>

-----------------------------------------------------------------------------
(* Bounds *)

\* longest -publish list of a run
MaxPublish == 2

\* longest port-spec list handed to the forwarding builders alone
MaxFlags == 2

-----------------------------------------------------------------------------
(* Go string helpers *)

Range(s) == {s[i] : i \in 1..Len(s)}

SeqsUpTo(S, n) == UNION {[1..k -> S] : k \in 0..n}

DigitChars == <<"0","1","2","3","4","5","6","7","8","9">>

UpperChars == <<"A","B","C","D","E","F","G","H","I","J","K","L","M","N","O","P","Q","R","S","T","U","V","W","X","Y","Z">>

LowerChars == <<"a","b","c","d","e","f","g","h","i","j","k","l","m","n","o","p","q","r","s","t","u","v","w","x","y","z">>

SpaceChars == {" ", "\t", "\n", "\r"}

\* strings.Split(s, sep) for a one-character separator
RECURSIVE Split(_, _)
Split(s, sep) ==
    IF \A i \in 1..Len(s) : s[i] # sep
    THEN <<s>>
    ELSE LET k == CHOOSE i \in 1..Len(s) :
                     s[i] = sep /\ \A j \in 1..(i - 1) : s[j] # sep
         IN  <<SubSeq(s, 1, k - 1)>> \o Split(SubSeq(s, k + 1, Len(s)), sep)

\* strings.ToLower on ASCII
ToLower(s) ==
    [i \in 1..Len(s) |->
        IF s[i] \in Range(UpperChars)
        THEN LowerChars[CHOOSE k \in 1..Len(UpperChars) : UpperChars[k] = s[i]]
        ELSE s[i]]

\* strings.TrimSpace
RECURSIVE TrimSpace(_)
TrimSpace(s) ==
    IF s = <<>> THEN s
    ELSE IF Head(s) \in SpaceChars THEN TrimSpace(Tail(s))
    ELSE IF s[Len(s)] \in SpaceChars THEN TrimSpace(SubSeq(s, 1, Len(s) - 1))
    ELSE s

\* ports are compared against these in splitPublish
MinPort == 1

MaxPort == 65535

\* largest int of the 64-bit build, as decimal digits
MaxInt64 == <<"9","2","2","3","3","7","2","0","3","6","8","5","4","7","7","5","8","0","7">>

RECURSIVE StripZeros(_)
StripZeros(ds) ==
    IF Len(ds) > 1 /\ Head(ds) = "0" THEN StripZeros(Tail(ds)) ELSE ds

DigitVal(c) == (CHOOSE k \in 1..10 : DigitChars[k] = c) - 1

RECURSIVE DecVal(_)
DecVal(ds) ==
    IF ds = <<>> THEN 0
    ELSE 10 * DecVal(SubSeq(ds, 1, Len(ds) - 1)) + DigitVal(ds[Len(ds)])

\* digit strings of equal length: a > b
RECURSIVE DigitsGreater(_, _)
DigitsGreater(a, b) ==
    IF a = <<>> THEN FALSE
    ELSE IF DigitVal(Head(a)) # DigitVal(Head(b))
         THEN DigitVal(Head(a)) > DigitVal(Head(b))
         ELSE DigitsGreater(Tail(a), Tail(b))

\* fmt.Sprintf("%d", n)
RECURSIVE Digits(_)
Digits(n) ==
    IF n < 10 THEN <<DigitChars[n + 1]>>
    ELSE Digits(n \div 10) \o <<DigitChars[(n % 10) + 1]>>

Itoa(n) == IF n < 0 THEN <<"-">> \o Digits(0 - n) ELSE Digits(n)

\* strconv.Atoi: optional sign, then at least one decimal digit and nothing
\* else; a value outside int64 is an error.  val is exact up to the width of
\* MaxPort; a wider value is only ever compared against the port range and is
\* represented by MaxPort + 1 (or its negation).
Atoi(s) ==
    LET signed == Len(s) > 0 /\ s[1] \in {"+", "-"}
        neg    == Len(s) > 0 /\ s[1] = "-"
        ds     == IF signed THEN Tail(s) ELSE s
        sig    == StripZeros(ds)
        over   == \/ Len(sig) > Len(MaxInt64)
                  \/ /\ Len(sig) = Len(MaxInt64)
                     /\ DigitsGreater(sig, MaxInt64)
                     /\ ~(neg /\ sig = SubSeq(MaxInt64, 1, Len(MaxInt64) - 1) \o <<"8">>)
        mag    == IF Len(sig) > Len(Digits(MaxPort)) THEN MaxPort + 1 ELSE DecVal(sig)
    IN  IF ds = <<>> \/ (\E i \in 1..Len(ds) : ds[i] \notin Range(DigitChars)) \/ over
        THEN [ok |-> FALSE, val |-> 0]
        ELSE [ok |-> TRUE, val |-> IF neg THEN 0 - mag ELSE mag]

\* filepath.IsAbs on unix
IsAbs(path) == Len(path) > 0 /\ path[1] = "/"

\* filepath.Split: directory up to and including the last separator, file after
PathSplit(path) ==
    LET seps == {i \in 1..Len(path) : path[i] = "/"}
        k    == IF seps = {} THEN 0 ELSE CHOOSE i \in seps : \A j \in seps : j <= i
    IN  [dir |-> SubSeq(path, 1, k), file |-> SubSeq(path, k + 1, Len(path))]

-----------------------------------------------------------------------------
(* Port-spec parser and forwarding builders *)

ErrMalformed == "Unable to parse the ports to be published, should be in format <host>:<guest> or <host>:<guest>/<tcp|udp>"

ErrHostNotInt == "The provided hostPort can't be converted to int"

ErrProtocol == "Provided protocol is not valid, valid options are: udp and tcp"

ErrGuestNotInt == "The provided guestPort can't be converted to int"

ErrHostRange == "Invalid hostPort: %d"

ErrGuestRange == "Invalid guestPort: %d"

publishedPorts(g, h, p) == [guest |-> g, host |-> h, protocol |-> p]

PublishFail(e) == [p |-> publishedPorts(0, 0, <<>>), err |-> e]

splitPublishNoGuestRange(publish) ==
    LET slice == Split(publish, ":") IN
    IF Len(slice) < 2 THEN PublishFail(ErrMalformed)
    ELSE
    LET hostPort == Atoi(slice[1]) IN
    IF ~hostPort.ok THEN PublishFail(ErrHostNotInt)
    ELSE
    LET right    == Split(slice[2], "/")
        protocol == IF Len(right) = 2
                    THEN TrimSpace(ToLower(right[2]))
                    ELSE <<"t","c","p">>
    IN
    IF protocol # <<"t","c","p">> /\ protocol # <<"u","d","p">> THEN PublishFail(ErrProtocol)
    ELSE
    LET guestPort == Atoi(right[1]) IN
    IF ~guestPort.ok THEN PublishFail(ErrGuestNotInt)
    ELSE IF hostPort.val < MinPort \/ hostPort.val > MaxPort THEN PublishFail(ErrHostRange)
    ELSE [p |-> publishedPorts(guestPort.val, hostPort.val, protocol), err |-> ""]

splitPublish(publish) ==
    LET slice == Split(publish, ":") IN
    IF Len(slice) < 2 THEN PublishFail(ErrMalformed)
    ELSE
    LET hostPort == Atoi(slice[1]) IN
    IF ~hostPort.ok THEN PublishFail(ErrHostNotInt)
    ELSE
    LET right    == Split(slice[2], "/")
        protocol == IF Len(right) = 2
                    THEN TrimSpace(ToLower(right[2]))
                    ELSE <<"t","c","p">>
    IN
    IF protocol # <<"t","c","p">> /\ protocol # <<"u","d","p">> THEN PublishFail(ErrProtocol)
    ELSE
    LET guestPort == Atoi(right[1]) IN
    IF ~guestPort.ok THEN PublishFail(ErrGuestNotInt)
    ELSE IF hostPort.val < MinPort \/ hostPort.val > MaxPort THEN PublishFail(ErrHostRange)
    ELSE IF guestPort.val < MinPort \/ guestPort.val > MaxPort THEN PublishFail(ErrGuestRange)
    ELSE [p |-> publishedPorts(guestPort.val, hostPort.val, protocol), err |-> ""]

QemuClauseKeepsHost(p, containerized) ==
    <<",","h","o","s","t","f","w","d","=">> \o p.protocol \o <<":",":">> \o Itoa(p.host) \o <<"-",":">> \o Itoa(p.guest)

\* one iteration of the loop of buildQemuForwardings on an accepted spec
QemuClause(p, containerized) ==
    LET guestPort == p.guest
        hostPort  == IF containerized THEN guestPort ELSE p.host
    IN  <<",","h","o","s","t","f","w","d","=">> \o p.protocol \o <<":",":">> \o Itoa(hostPort) \o <<"-",":">> \o Itoa(guestPort)

RECURSIVE QemuForwardLoop(_, _, _)
QemuForwardLoop(forwardings, publishFlags, containerized) ==
    IF publishFlags = <<>> THEN [s |-> forwardings, err |-> ""]
    ELSE LET r == splitPublish(Head(publishFlags)) IN
         IF r.err # "" THEN [s |-> <<>>, err |-> r.err]
         ELSE QemuForwardLoop(forwardings \o QemuClause(r.p, containerized),
                              Tail(publishFlags), containerized)

buildQemuForwardings(publishFlags, containerized) ==
    QemuForwardLoop(<<"u","s","e","r">>, publishFlags, containerized)

DockerFlagSwapped(s) == Itoa(s.guest) \o <<":">> \o Itoa(s.host) \o <<"/">> \o s.protocol

DockerFlag(s) == Itoa(s.host) \o <<":">> \o Itoa(s.guest) \o <<"/">> \o s.protocol

RECURSIVE DockerForwardLoop(_, _)
DockerForwardLoop(pmap, ports) ==
    IF ports = <<>> THEN [l |-> pmap, err |-> ""]
    ELSE LET r == splitPublish(Head(ports)) IN
         IF r.err # "" THEN [l |-> <<>>, err |-> r.err]
         ELSE DockerForwardLoop(pmap \o <<<<"-","p">>, DockerFlag(r.p)>>, Tail(ports))

buildDockerForwardings(ports) == DockerForwardLoop(<<>>, ports)

-----------------------------------------------------------------------------
(* Configuration and backend discovery *)

\* QemuImg, the container image of the fallback
QemuImg == <<"l","i","n","u","x","k","i","t","/","a","a","r","c","h","6","4","/","q","e","m","u",":","4","7","d","8","f","0","e","7","1","9","1","e","1","b","5","b","b","b","3","6","6","f","b","8","0","e","9","a","0","e","e","9","a","b","2","b","d","0","1","d">>

\* the QemuConfig literal of runQemu: the flags as given, the derived fields zero
QemuConfig(prefix, iso, uefi, kernel, gui, disk, publish) ==
    [Prefix         |-> prefix,
     ISO            |-> iso,
     UEFI           |-> uefi,
     Kernel         |-> kernel,
     GUI            |-> gui,
     DiskPath       |-> disk,
     DiskSize       |-> <<"1","G">>,
     FWPath         |-> <<"/","u","s","r","/","s","h","a","r","e","/","o","v","m","f","/","b","i","o","s",".","b","i","n">>,
     Arch           |-> <<"x","8","6","_","6","4">>,
     CPUs           |-> <<"1">>,
     Memory         |-> <<"1","0","2","4">>,
     KVM            |-> FALSE,
     Containerized  |-> FALSE,
     QemuBinPath    |-> <<>>,
     QemuImgPath    |-> <<>>,
     PublishedPorts |-> publish]

\* exec.LookPath: the resolved path and no error, or "" and an error
LookPath(file, found) ==
    IF found THEN [path |-> <<"/","u","s","r","/","b","i","n","/">> \o file, ok |-> TRUE]
    ELSE [path |-> <<>>, ok |-> FALSE]

discoverBackend(cfg, binFound, imgFound) ==
    LET bin == LookPath(<<"q","e","m","u","-","s","y","s","t","e","m","-">> \o cfg.Arch, binFound)
        c1  == [cfg EXCEPT !.QemuBinPath = bin.path]
        c2  == IF ~bin.ok THEN [c1 EXCEPT !.Containerized = TRUE] ELSE c1
        img == LookPath(<<"q","e","m","u","-","i","m","g">>, imgFound)
        c3  == [c2 EXCEPT !.QemuImgPath = img.path]
    IN  IF ~img.ok /\ ~c3.Containerized
        THEN [c3 EXCEPT !.Containerized = TRUE]
        ELSE c3

-----------------------------------------------------------------------------
(* Argument builder *)

ErrNoFile == "File [%s] does not exist in current directory"

\* buildPath: log.Fatalf when the path is absolute and os.Stat says it does
\* not exist; present is the negation of os.IsNotExist of that Stat
buildPath(prefix, postfix, present) ==
    LET path == prefix \o postfix
    IN  [path |-> path, fatal |-> IsAbs(path) /\ ~present]

DefaultCmdline == <<"c","o","n","s","o","l","e","=","t","t","y","S","0"," ","c","o","n","s","o","l","e","=","t","t","y","0"," ","p","a","g","e","_","p","o","i","s","o","n","=","1">>

\* fs is what the file system answers: kvm is the Stat of /dev/kvm ("present",
\* "absent", or "error" for any other failure), iso/efi/kernel/initrd the
\* presence of the image files, cmdline the content of <prefix>-cmdline or
\* unreadable.  The blocks of buildQemuCmdline pass on st, the configuration and
\* the arguments so far; fatal: a buildPath call ended the process.

\* the /dev/kvm block
KvmBlock(st, fs) ==
    IF fs.kvm = "absent"
    THEN [st EXCEPT !.args = @ \o <<<<"-","m","a","c","h","i","n","e">>, <<"v","i","r","t">>>>]
    ELSE [st EXCEPT !.config.KVM = TRUE,
                    !.args = @ \o <<<<"-","e","n","a","b","l","e","-","k","v","m">>, <<"-","m","a","c","h","i","n","e">>, <<"v","i","r","t">>>>]

\* the -iso block
IsoBlock(st, fs) ==
    IF ~st.config.ISO THEN st
    ELSE LET qemuIsoPath == buildPath(st.config.Prefix, <<".","i","s","o">>, fs.iso) IN
         [st EXCEPT !.config.Kernel = FALSE,
                    !.args = @ \o <<<<"-","c","d","r","o","m">>, qemuIsoPath.path>>,
                    !.fatal = @ \/ qemuIsoPath.fatal]

UefiBlockKeepsKernel(st, fs) ==
    IF ~st.config.UEFI THEN st
    ELSE LET qemuIsoPath == buildPath(st.config.Prefix, <<"-","e","f","i",".","i","s","o">>, fs.efi) IN
         [st EXCEPT !.args = @ \o <<<<"-","p","f","l","a","s","h">>, st.config.FWPath, <<"-","c","d","r","o","m">>, qemuIsoPath.path,
                                     <<"-","b","o","o","t">>, <<"d">>>>,
                    !.fatal = @ \/ qemuIsoPath.fatal]

\* the -uefi block
UefiBlock(st, fs) ==
    IF ~st.config.UEFI THEN st
    ELSE LET qemuIsoPath == buildPath(st.config.Prefix, <<"-","e","f","i",".","i","s","o">>, fs.efi) IN
         [st EXCEPT !.config.Kernel = FALSE,
                    !.args = @ \o <<<<"-","p","f","l","a","s","h">>, st.config.FWPath, <<"-","c","d","r","o","m">>, qemuIsoPath.path,
                                     <<"-","b","o","o","t">>, <<"d">>>>,
                    !.fatal = @ \/ qemuIsoPath.fatal]

\* the kernel block
KernelBlock(st, fs) ==
    IF ~st.config.Kernel THEN st
    ELSE LET qemuKernelPath == buildPath(st.config.Prefix, <<"-","k","e","r","n","e","l">>, fs.kernel)
             qemuInitrdPath == buildPath(st.config.Prefix, <<"-","i","n","i","t","r","d",".","i","m","g">>, fs.initrd)
         IN  [st EXCEPT !.args = @ \o <<<<"-","k","e","r","n","e","l">>, qemuKernelPath.path,
                                         <<"-","i","n","i","t","r","d">>, qemuInitrdPath.path,
                                         <<"-","a","p","p","e","n","d">>, IF fs.cmdline.ok THEN fs.cmdline.text
                                                                       ELSE DefaultCmdline>>,
                        !.fatal = @ \/ qemuKernelPath.fatal \/ qemuInitrdPath.fatal]

\* the published-ports block: an error of buildQemuForwardings is logged and
\* the empty string it returned is appended
NetBlock(st) ==
    IF Len(st.config.PublishedPorts) = 0 THEN st
    ELSE LET forwardings == buildQemuForwardings(st.config.PublishedPorts, st.config.Containerized)
         IN  [st EXCEPT !.args = @ \o <<<<"-","n","e","t">>, forwardings.s, <<"-","n","e","t">>, <<"n","i","c">>>>]

buildQemuCmdline(cfg, fs) ==
    LET s1 == [config |-> cfg,
               args   |-> <<<<"-","d","e","v","i","c","e">>, <<"v","i","r","t","i","o","-","r","n","g","-","p","c","i">>, <<"-","s","m","p">>, cfg.CPUs, <<"-","m">>, cfg.Memory>>,
               fatal  |-> FALSE]
        s2 == KvmBlock(s1, fs)
        s3 == IF s2.config.DiskPath # <<>>
              THEN [s2 EXCEPT !.args = @ \o <<<<"-","d","r","i","v","e">>, <<"f","i","l","e","=">> \o s2.config.DiskPath
                                                \o <<",","f","o","r","m","a","t","=","q","c","o","w","2",",","i","n","d","e","x","=","0",",","m","e","d","i","a","=","d","i","s","k">>>>]
              ELSE s2
        s4 == NetBlock(KernelBlock(UefiBlock(IsoBlock(s3, fs), fs), fs))
    IN  IF ~s4.config.GUI
        THEN [s4 EXCEPT !.args = @ \o <<<<"-","n","o","g","r","a","p","h","i","c">>>>]
        ELSE s4

-----------------------------------------------------------------------------
(* Runners *)

ErrDiskCreate == "Error creating disk [%s]:  %s"

ErrFirmware == "File [%s] does not exist, please ensure OVMF is installed"

ErrDocker == "Unable to find docker in the $PATH"

ErrGui == "GUI mode is only supported when running locally, not in a container"

\* errors of the environment that the runners return unchanged
ErrStat == "stat: permission denied"

ErrGetwd == "getwd: no such file or directory"

ErrExit == "exit status 1"

StatOutcomes == {"present", "absent", "error"}

\* every answer of the file system buildQemuCmdline can get
FsChoices ==
    [kvm     : StatOutcomes,
     iso     : BOOLEAN,
     efi     : BOOLEAN,
     kernel  : BOOLEAN,
     initrd  : BOOLEAN,
     cmdline : {[ok |-> FALSE, text |-> <<>>], [ok |-> TRUE, text |-> <<"c","o","n","s","o","l","e","=","t","t","y","S","0">>]}]

\* exec.Command(path, args...).Run() with its outcome
Command(path, cmdArgs, ok) == [path |-> path, args |-> cmdArgs, ok |-> ok]

DiskStepIgnoresFailure(stat, createCmd) ==
    IF stat = "present" THEN [run |-> <<>>, err |-> ""]
    ELSE IF stat = "absent"
         THEN [run |-> <<createCmd>>, err |-> ""]
         ELSE [run |-> <<>>, err |-> ErrStat]

\* the disk block shared by both runners: Stat the disk, create it when absent.
\* createCmd is the command that creates it.
DiskStep(stat, createCmd) ==
    IF stat = "present" THEN [run |-> <<>>, err |-> ""]
    ELSE IF stat = "absent"
         THEN [run |-> <<createCmd>>, err |-> IF createCmd.ok THEN "" ELSE ErrDiskCreate]
         ELSE [run |-> <<>>, err |-> ErrStat]

\* the answers that differ in a file buildQemuCmdline looks at for cfg: a file
\* it does not Stat is reported present, a cmdline it does not read unreadable
FsFor(cfg) ==
    LET kernelBoot == cfg.Kernel /\ ~cfg.ISO /\ ~cfg.UEFI IN
    {fs \in FsChoices :
        /\ (~cfg.ISO \/ ~IsAbs(cfg.Prefix \o <<".","i","s","o">>)) => fs.iso
        /\ (~cfg.UEFI \/ ~IsAbs(cfg.Prefix \o <<"-","e","f","i",".","i","s","o">>)) => fs.efi
        /\ (~kernelBoot \/ ~IsAbs(cfg.Prefix \o <<"-","k","e","r","n","e","l">>)) => fs.kernel
        /\ (~kernelBoot \/ ~IsAbs(cfg.Prefix \o <<"-","i","n","i","t","r","d",".","i","m","g">>)) => fs.initrd
        /\ ~kernelBoot => ~fs.cmdline.ok}

\* runQemuContainer: the working directory and the prefix relative to it
ContainerWorkdir(cfg, getwdOk) ==
    LET abs == IsAbs(cfg.Prefix)
        sp  == PathSplit(cfg.Prefix)
    IN  [wd     |-> IF abs THEN sp.dir ELSE IF getwdOk THEN <<"/","h","o","m","e","/","u","s","e","r">> ELSE <<>>,
         config |-> IF abs THEN [cfg EXCEPT !.Prefix = sp.file] ELSE cfg,
         err    |-> IF ~abs /\ ~getwdOk THEN ErrGetwd ELSE ""]

\* runQemuContainer: the docker arguments and the lookup of docker
ContainerDockerArgs(cfg, dir, dockerFound) ==
    LET d1    == <<<<"r","u","n">>, <<"-","i">>, <<"-","-","r","m">>, <<"-","v">>, dir \o <<":">> \o <<"/","t","m","p">>, <<"-","w">>, <<"/","t","m","p">>>>
        d2    == d1 \o (IF cfg.KVM THEN <<<<"-","-","d","e","v","i","c","e">>, <<"/","d","e","v","/","k","v","m">>>> ELSE <<>>)
        ports == Len(cfg.PublishedPorts) > 0
        fwd   == buildDockerForwardings(cfg.PublishedPorts)
        d3    == d2 \o (IF ports THEN fwd.l ELSE <<>>)
    IN  [dockerArgs |-> d3,
         err        |-> IF ports /\ fwd.err # "" THEN fwd.err
                        ELSE IF ~dockerFound THEN ErrDocker ELSE ""]

DockerPath == LookPath(<<"d","o","c","k","e","r">>, TRUE).path

-----------------------------------------------------------------------------
(* The run as a state machine *)

Prefixes == {<<"i","m","g">>, <<"/","d","/","i","m","g">>}

DiskPaths == {<<>>, <<"d",".","i","m","g">>}

\* -publish values of the modelled runs: two accepted, one with a single part
RunSpecs == {<<"2","2","2","2",":","2","2">>, <<"8","0","8","0",":","8","0","/","U","D","P">>, <<"8","0","8","0">>}

NoEnv == [bin |-> "?", img |-> "?", kvm |-> "?", docker |-> "?", disk |-> "?", fw |-> "?"]

ParseOff ==
    /\ ppc = "off"
    /\ pin = <<>>
    /\ pcont = FALSE
    /\ pout = <<>>

Init ==
    /\ pc = "start"
    /\ \E prefix \in Prefixes, iso \in BOOLEAN, uefi \in BOOLEAN, kernel \in BOOLEAN,
          gui \in BOOLEAN, disk \in DiskPaths, publish \in SeqsUpTo(RunSpecs, MaxPublish) :
          config = QemuConfig(prefix, iso, uefi, kernel, gui, disk, publish)
    /\ args = <<>>
    /\ dockerArgs = <<>>
    /\ wd = <<>>
    /\ spawned = <<>>
    /\ err = ""
    /\ env = NoEnv
    /\ ParseOff

\* runQemu: discoverBackend and the choice of the runner
Discover ==
    /\ pc = "start"
    /\ \E binFound \in BOOLEAN, imgFound \in BOOLEAN :
          /\ config' = discoverBackend(config, binFound, imgFound)
          /\ env' = [env EXCEPT !.bin = IF binFound THEN "present" ELSE "absent",
                                !.img = IF imgFound THEN "present" ELSE "absent"]
    /\ pc' = IF config'.Containerized THEN "container" ELSE "local"
    /\ UNCHANGED <<args, dockerArgs, wd, spawned, err, parseVars>>

\* runQemuLocal: buildQemuCmdline
LocalBuild ==
    /\ pc = "local"
    /\ \E fs \in FsFor(config) :
          LET b == buildQemuCmdline(config, fs) IN
          /\ env' = [env EXCEPT !.kvm = fs.kvm]
          /\ IF b.fatal
             THEN /\ pc' = "failed"
                  /\ err' = ErrNoFile
                  /\ UNCHANGED <<config, args>>
             ELSE /\ pc' = "local_disk"
                  /\ config' = b.config
                  /\ args' = b.args
                  /\ UNCHANGED err
    /\ UNCHANGED <<dockerArgs, wd, spawned, parseVars>>

\* runQemuLocal: the disk block
LocalDisk ==
    /\ pc = "local_disk"
    /\ IF config.DiskPath = <<>>
       THEN /\ pc' = "local_fw"
            /\ UNCHANGED <<spawned, err, env>>
       ELSE \E stat \in StatOutcomes, ok \in BOOLEAN :
               LET create == Command(config.QemuImgPath,
                                     <<<<"c","r","e","a","t","e">>, <<"-","f">>, <<"q","c","o","w","2">>, config.DiskPath, config.DiskSize>>, ok)
                   d      == DiskStep(stat, create)
               IN  /\ env' = [env EXCEPT !.disk = stat]
                   /\ spawned' = spawned \o d.run
                   /\ err' = d.err
                   /\ pc' = IF d.err = "" THEN "local_fw" ELSE "failed"
    /\ UNCHANGED <<config, args, dockerArgs, wd, parseVars>>

\* runQemuLocal: the OVMF firmware check
LocalFirmware ==
    /\ pc = "local_fw"
    /\ IF ~config.UEFI
       THEN /\ pc' = "local_run"
            /\ UNCHANGED <<err, env>>
       ELSE \E stat \in StatOutcomes :
               /\ env' = [env EXCEPT !.fw = stat]
               /\ err' = IF stat = "present" THEN ""
                         ELSE IF stat = "absent" THEN ErrFirmware ELSE ErrStat
               /\ pc' = IF stat = "present" THEN "local_run" ELSE "failed"
    /\ UNCHANGED <<config, args, dockerArgs, wd, spawned, parseVars>>

\* runQemuLocal: the hypervisor, and runQemu's handling of its result
LocalRun ==
    /\ pc = "local_run"
    /\ \E ok \in BOOLEAN :
          /\ spawned' = Append(spawned, Command(config.QemuBinPath, args, ok))
          /\ err' = IF ok THEN "" ELSE ErrExit
          /\ pc' = IF ok THEN "done" ELSE "failed"
    /\ UNCHANGED <<config, args, dockerArgs, wd, env, parseVars>>

\* runQemuContainer: the working directory
ContainerWd ==
    /\ pc = "container"
    /\ \E getwdOk \in BOOLEAN :
          LET r == ContainerWorkdir(config, getwdOk) IN
          /\ wd' = r.wd
          /\ config' = r.config
          /\ err' = r.err
          /\ pc' = IF r.err = "" THEN "container_build" ELSE "failed"
    /\ UNCHANGED <<args, dockerArgs, spawned, env, parseVars>>

\* runQemuContainer: buildQemuCmdline
ContainerBuild ==
    /\ pc = "container_build"
    /\ \E fs \in FsFor(config) :
          LET b == buildQemuCmdline(config, fs) IN
          /\ env' = [env EXCEPT !.kvm = fs.kvm]
          /\ IF b.fatal
             THEN /\ pc' = "failed"
                  /\ err' = ErrNoFile
                  /\ UNCHANGED <<config, args>>
             ELSE /\ pc' = "container_docker"
                  /\ config' = b.config
                  /\ args' = b.args
                  /\ UNCHANGED err
    /\ UNCHANGED <<wd, dockerArgs, spawned, parseVars>>

\* runQemuContainer: the docker arguments and the lookup of docker
ContainerDocker ==
    /\ pc = "container_docker"
    /\ \E dockerFound \in BOOLEAN :
          LET r == ContainerDockerArgs(config, wd, dockerFound) IN
          /\ env' = [env EXCEPT !.docker = IF dockerFound THEN "present" ELSE "absent"]
          /\ err' = r.err
          /\ IF r.err # ""
             THEN /\ pc' = "failed"
                  /\ UNCHANGED dockerArgs
             ELSE /\ pc' = "container_disk"
                  /\ dockerArgs' = r.dockerArgs
    /\ UNCHANGED <<config, args, wd, spawned, parseVars>>

\* runQemuContainer: the disk block
ContainerDisk ==
    /\ pc = "container_disk"
    /\ IF config.DiskPath = <<>>
       THEN /\ pc' = "container_run"
            /\ UNCHANGED <<spawned, err, env>>
       ELSE \E stat \in StatOutcomes, ok \in BOOLEAN :
               LET imgArgs == dockerArgs \o <<QemuImg, <<"q","e","m","u","-","i","m","g">>, <<"c","r","e","a","t","e">>, <<"-","f">>, <<"q","c","o","w","2">>,
                                              config.DiskPath, config.DiskSize>>
                   d       == DiskStep(stat, Command(DockerPath, imgArgs, ok))
               IN  /\ env' = [env EXCEPT !.disk = stat]
                   /\ spawned' = spawned \o d.run
                   /\ err' = d.err
                   /\ pc' = IF d.err = "" THEN "container_run" ELSE "failed"
    /\ UNCHANGED <<config, args, dockerArgs, wd, parseVars>>

\* runQemuContainer: the GUI check and the hypervisor container
ContainerRun ==
    /\ pc = "container_run"
    /\ LET qemuArgs == dockerArgs \o <<QemuImg, <<"q","e","m","u","-","s","y","s","t","e","m","-">> \o config.Arch>> \o args IN
       IF config.GUI
       THEN /\ err' = ErrGui
            /\ pc' = "failed"
            /\ UNCHANGED spawned
       ELSE \E ok \in BOOLEAN :
               /\ spawned' = Append(spawned, Command(DockerPath, qemuArgs, ok))
               /\ err' = IF ok THEN "" ELSE ErrExit
               /\ pc' = IF ok THEN "done" ELSE "failed"
    /\ UNCHANGED <<config, args, dockerArgs, wd, env, parseVars>>

Next ==
    \/ Discover
    \/ LocalBuild
    \/ LocalDisk
    \/ LocalFirmware
    \/ LocalRun
    \/ ContainerWd
    \/ ContainerBuild
    \/ ContainerDocker
    \/ ContainerDisk
    \/ ContainerRun

Spec == Init /\ [][Next]_vars

-----------------------------------------------------------------------------
(* The parser and the forwarding builders applied to bounded inputs *)

HostToks == {<<"2","2","2","2">>, <<"8","0","8","0">>, <<"0">>, <<"6","5","5","3","5">>, <<"6","5","5","3","6">>, <<"x">>, <<>>, <<"+","8","0">>, <<"-","1">>,
             <<"0","8","0">>, <<"4","2","9","4","9","6","7","2","9","7">>, <<"9","2","2","3","3","7","2","0","3","6","8","5","4","7","7","5","8","0","8">>}

GuestToks == {<<"2","2">>, <<"8","0">>, <<"0">>, <<"6","5","5","3","6">>, <<"x">>, <<>>, <<" ","8","0">>, <<"9","9","9","9","9","9","9","9","9","9","9","9","9","9","9","9","9","9","9","9">>}

Suffixes == {<<>>, <<"/","t","c","p">>, <<"/","u","d","p">>, <<"/","U","D","P">>, <<"/"," ","U","d","p"," ">>, <<"/","s","c","t","p">>, <<"/">>, <<"/","t","c","p","/","u","d","p">>,
             <<"/","s","c","t","p","/","x">>, <<":","9">>, <<"/","u","d","p",":","9">>}

AllSpecs ==
    {h \o <<":">> \o g \o s : h \in HostToks, g \in GuestToks, s \in Suffixes} \cup HostToks

FwdSpecs == {<<"2","2","2","2",":","2","2">>, <<"8","0","8","0",":","8","0","/","u","d","p">>, <<"0","8","0",":","8","0","/","U","D","P">>, <<"2","2",":","2","2","/","s","c","t","p","/","x">>, <<"8","0","8","0">>, <<"0",":","8","0">>}

RunOff ==
    /\ pc = "off"
    /\ config = <<>>
    /\ args = <<>>
    /\ dockerArgs = <<>>
    /\ wd = <<>>
    /\ spawned = <<>>
    /\ err = ""
    /\ env = NoEnv

InitParse ==
    /\ RunOff
    /\ ppc = "input"
    /\ pin \in {<<s>> : s \in AllSpecs} \cup SeqsUpTo(FwdSpecs, MaxFlags)
    /\ pcont \in BOOLEAN
    /\ pout = <<>>

ApplySplitPublish ==
    /\ ppc = "input"
    /\ Len(pin) = 1
    /\ pout' = splitPublish(pin[1])
    /\ ppc' = "split"
    /\ UNCHANGED <<pin, pcont, runVars>>

ApplyQemuForwardings ==
    /\ ppc = "input"
    /\ pout' = buildQemuForwardings(pin, pcont)
    /\ ppc' = "qemu"
    /\ UNCHANGED <<pin, pcont, runVars>>

ApplyDockerForwardings ==
    /\ ppc = "input"
    /\ pout' = buildDockerForwardings(pin)
    /\ ppc' = "docker"
    /\ UNCHANGED <<pin, pcont, runVars>>

NextParse ==
    \/ ApplySplitPublish
    \/ ApplyQemuForwardings
    \/ ApplyDockerForwardings

SpecParse == InitParse /\ [][NextParse]_vars

-----------------------------------------------------------------------------
(* Vocabulary of the properties *)

Has(a, x) == \E i \in 1..Len(a) : a[i] = x

HasPair(a, x, y) == \E i \in 1..(Len(a) - 1) : a[i] = x /\ a[i + 1] = y

\* the values that follow each occurrence of option opt, in order
RECURSIVE After(_, _)
After(a, opt) ==
    IF Len(a) < 2 THEN <<>>
    ELSE IF Head(a) = opt THEN <<a[2]>> \o After(SubSeq(a, 3, Len(a)), opt)
    ELSE After(Tail(a), opt)

IsDiskCreate(c) == Has(c.args, <<"c","r","e","a","t","e">>)

IsHypervisor(c) == ~IsDiskCreate(c)

Creates == {i \in 1..Len(spawned) : IsDiskCreate(spawned[i])}

Hypervisors == {i \in 1..Len(spawned) : IsHypervisor(spawned[i])}

\* the error kinds of the port-spec parser
ErrKind(e) ==
    IF e = ErrMalformed THEN "MalformedSpec"
    ELSE IF e \in {ErrHostNotInt, ErrGuestNotInt} THEN "InvalidPort"
    ELSE IF e = ErrProtocol THEN "InvalidProtocol"
    ELSE IF e \in {ErrHostRange, ErrGuestRange} THEN "PortOutOfRange"
    ELSE "none"

\* s is written as an integer: an optional sign and decimal digits
IsDecimal(s) ==
    LET ds == IF Len(s) > 0 /\ s[1] \in {"+", "-"} THEN Tail(s) ELSE s
    IN  ds # <<>> /\ \A i \in 1..Len(ds) : ds[i] \in Range(DigitChars)

InPortRange(s) == Atoi(s).ok /\ Atoi(s).val >= MinPort /\ Atoi(s).val <= MaxPort

\* the parts of a spec with at least two colon-separated parts
HostPart(s) == Split(s, ":")[1]

SecondPart(s) == Split(s, ":")[2]

GuestPart(s) == Split(SecondPart(s), "/")[1]

HasSuffix(s) == Has(SecondPart(s), "/")

\* everything after the first "/" of the second part
SuffixPart(s) == SubSeq(SecondPart(s), Len(GuestPart(s)) + 2, Len(SecondPart(s)))

TwoParts(s) == Len(Split(s, ":")) >= 2

Accepted(s) == splitPublish(s).err = ""

Rejected(cfg) == \E i \in 1..Len(cfg.PublishedPorts) : ~Accepted(cfg.PublishedPorts[i])

-----------------------------------------------------------------------------
(* Properties *)

\* C1: a run whose published-port list holds a spec the parser rejects never
\* completes successfully and never invokes the hypervisor.
C1_RejectedSpecAbortsRun ==
    Rejected(config) => (pc # "done" /\ Hypervisors = {})

\* C2: on the containerized path with GUI requested no subprocess is spawned
\* (the run fails with the GUI error before any disk creation or hypervisor).
C2_GuiFailsBeforeAnySpawn ==
    (config.Containerized /\ config.GUI) => spawned = <<>>

\* C3: for a list of accepted specs buildQemuForwardings returns "user" followed
\* by one clause per spec in the order given, hostfwd=<proto>::<host>-:<guest>
\* locally and hostfwd=<proto>::<guest>-:<guest> when containerized.
C3_QemuForwardings ==
    (ppc = "qemu" /\ \A i \in 1..Len(pin) : Accepted(pin[i])) =>
        LET parts == Split(pout.s, ",") IN
        /\ pout.err = ""
        /\ Len(parts) = Len(pin) + 1
        /\ parts[1] = <<"u","s","e","r">>
        /\ \A i \in 1..Len(pin) :
              LET p == splitPublish(pin[i]).p IN
              parts[i + 1] = <<"h","o","s","t","f","w","d","=">> \o p.protocol \o <<":",":">>
                             \o Itoa(IF pcont THEN p.guest ELSE p.host)
                             \o <<"-",":">> \o Itoa(p.guest)

C3_Witness ==
    /\ ppc = "qemu"
    /\ pcont
    /\ pin = <<<<"2","2","2","2",":","2","2">>, <<"8","0","8","0",":","8","0","/","u","d","p">>>>
    /\ pout.s = <<"u","s","e","r",",","h","o","s","t","f","w","d","=","t","c","p",":",":","2","2","-",":","2","2",",","h","o","s","t","f","w","d","=","u","d","p",":",":","8","0","-",":","8","0">>

\* C4 as stated: with at least two parts, a host or guest port that is an integer
\* outside 1..65535 gives PortOutOfRange and one that is no integer gives
\* InvalidPort, whatever the rest of the spec holds.
C4_PortErrorsWhateverTheRest ==
    (ppc = "split" /\ TwoParts(pin[1])) =>
        LET h == HostPart(pin[1])
            g == GuestPart(pin[1])
        IN  /\ ((IsDecimal(h) /\ ~InPortRange(h)) \/ (IsDecimal(g) /\ ~InPortRange(g)))
                   => ErrKind(pout.err) = "PortOutOfRange"
            /\ (~IsDecimal(h) \/ ~IsDecimal(g)) => ErrKind(pout.err) = "InvalidPort"

\* the protocol check of the parser passes: the second part does not split into
\* exactly two at "/", or its second piece, lower-cased and trimmed, is tcp or udp
ProtocolPasses(s) ==
    LET right == Split(SecondPart(s), "/")
    IN  Len(right) # 2 \/ TrimSpace(ToLower(right[2])) \in {<<"t","c","p">>, <<"u","d","p">>}

\* C4 amended: with at least two parts, a host port that does not convert to an
\* int gives InvalidPort whatever the rest; a guest port that does not convert
\* gives InvalidPort once the host port converts and the protocol check passes;
\* a port outside 1..65535 gives PortOutOfRange once both ports convert and the
\* protocol check passes.
C4_PortErrorsInCheckOrder ==
    (ppc = "split" /\ TwoParts(pin[1])) =>
        LET h == HostPart(pin[1])
            g == GuestPart(pin[1])
        IN  /\ ~Atoi(h).ok => pout.err = ErrHostNotInt
            /\ (Atoi(h).ok /\ ProtocolPasses(pin[1]) /\ ~Atoi(g).ok)
                   => pout.err = ErrGuestNotInt
            /\ (Atoi(h).ok /\ ProtocolPasses(pin[1]) /\ Atoi(g).ok
                  /\ (~InPortRange(h) \/ ~InPortRange(g)))
                   => ErrKind(pout.err) = "PortOutOfRange"

C4_Witness ==
    /\ ppc = "split"
    /\ pin = <<<<"2","2","2","2",":","6","5","5","3","6","/","u","d","p">>>>
    /\ pout.err = ErrGuestRange

\* C5: an accepted spec without a "/" suffix gets tcp; an accepted spec with a
\* suffix has a suffix that, lower-cased and trimmed, is exactly tcp or udp, and
\* gets that protocol.
C5_SuffixIsTcpOrUdp ==
    (ppc = "split" /\ TwoParts(pin[1]) /\ pout.err = "") =>
        IF HasSuffix(pin[1])
        THEN /\ TrimSpace(ToLower(SuffixPart(pin[1]))) \in {<<"t","c","p">>, <<"u","d","p">>}
             /\ pout.p.protocol = TrimSpace(ToLower(SuffixPart(pin[1])))
        ELSE pout.p.protocol = <<"t","c","p">>

\* the step in which buildQemuCmdline returns its argument list
BuildStep == args = <<>> /\ args' # <<>>

\* C6: the argument list built by buildQemuCmdline holds -kernel, -initrd and
\* -append exactly when Kernel is set and neither ISO nor UEFI is; with UEFI it
\* holds -pflash <FWPath>, -cdrom <prefix>-efi.iso and -boot d, and the returned
\* configuration has Kernel cleared.
C6_BootDirectives ==
    [][BuildStep =>
          LET kernelBoot == config.Kernel /\ ~config.ISO /\ ~config.UEFI IN
          /\ kernelBoot => /\ HasPair(args', <<"-","k","e","r","n","e","l">>, config.Prefix \o <<"-","k","e","r","n","e","l">>)
                           /\ HasPair(args', <<"-","i","n","i","t","r","d">>, config.Prefix \o <<"-","i","n","i","t","r","d",".","i","m","g">>)
                           /\ Has(args', <<"-","a","p","p","e","n","d">>)
          /\ ~kernelBoot => /\ ~Has(args', <<"-","k","e","r","n","e","l">>)
                            /\ ~Has(args', <<"-","i","n","i","t","r","d">>)
                            /\ ~Has(args', <<"-","a","p","p","e","n","d">>)
          /\ config.UEFI => /\ HasPair(args', <<"-","p","f","l","a","s","h">>, config.FWPath)
                            /\ HasPair(args', <<"-","c","d","r","o","m">>, config.Prefix \o <<"-","e","f","i",".","i","s","o">>)
                            /\ HasPair(args', <<"-","b","o","o","t">>, <<"d">>)
                            /\ ~config'.Kernel
    ]_vars

C6_Witness ==
    /\ args # <<>>
    /\ config.UEFI
    /\ config.ISO
    /\ HasPair(args, <<"-","b","o","o","t">>, <<"d">>)
    /\ ~config.Kernel

\* C7: after discoverBackend, Containerized holds exactly when one of the two
\* tools was not found, and then both resolved paths are empty.
C7_ContainerizedPathsUnset ==
    pc # "start" =>
        /\ config.Containerized <=> (env.bin = "absent" \/ env.img = "absent")
        /\ config.Containerized => (config.QemuBinPath = <<>> /\ config.QemuImgPath = <<>>)

\* C8: at most one disk creation, only with a disk path configured and the file
\* absent; at most one hypervisor, after every disk creation and only if that
\* succeeded and, locally with UEFI, the firmware was found; a failed subprocess
\* is the last one and ends the run in error; a failed firmware check or a
\* missing docker ends the run in error without a (further) subprocess.
C8_SequentialNoRetry ==
    /\ Cardinality(Creates) <= 1
    /\ Cardinality(Hypervisors) <= 1
    /\ Creates # {} => (config.DiskPath # <<>> /\ env.disk = "absent")
    /\ \A h \in Hypervisors :
          /\ \A c \in Creates : c < h /\ spawned[c].ok
          /\ (~config.Containerized /\ config.UEFI) => env.fw = "present"
    /\ \A i \in 1..Len(spawned) :
          ~spawned[i].ok => (i = Len(spawned) /\ pc = "failed" /\ err # "")
    /\ env.fw \in {"absent", "error"} => (pc = "failed" /\ err # "" /\ Hypervisors = {})
    /\ env.docker = "absent" => (pc = "failed" /\ err # "" /\ spawned = <<>>)

C8_Witness ==
    /\ pc = "done"
    /\ Len(spawned) = 2
    /\ IsDiskCreate(spawned[1])
    /\ IsHypervisor(spawned[2])
    /\ config.UEFI
    /\ ~config.Containerized

\* C9: once the arguments are built, -enable-kvm is present and KVM recorded
\* exactly when /dev/kvm was found present; -machine virt is always there; and
\* the docker arguments hold --device /dev/kvm exactly when KVM is recorded.
C9_KvmIffDevicePresent ==
    args # <<>> =>
        /\ config.KVM <=> env.kvm = "present"
        /\ Has(args, <<"-","e","n","a","b","l","e","-","k","v","m">>) <=> env.kvm = "present"
        /\ HasPair(args, <<"-","m","a","c","h","i","n","e">>, <<"v","i","r","t">>)
        /\ dockerArgs # <<>> =>
              (HasPair(dockerArgs, <<"-","-","d","e","v","i","c","e">>, <<"/","d","e","v","/","k","v","m">>) <=> config.KVM)

\* C10: in a containerized run with published ports, the hypervisor container is
\* started with one -p flag and one hostfwd clause per spec, in the order of the
\* specs: the i-th flag is <host>:<guest>/<proto> and the i-th clause is
\* hostfwd=<proto>::<guest>-:<guest>.
C10_ForwardingsCompose ==
    \A k \in Hypervisors :
        (config.Containerized /\ Len(config.PublishedPorts) > 0) =>
            LET n       == Len(config.PublishedPorts)
                flags   == After(spawned[k].args, <<"-","p">>)
                clauses == Tail(Split(After(spawned[k].args, <<"-","n","e","t">>)[1], ","))
            IN  /\ Len(flags) = n
                /\ Len(clauses) = n
                /\ \A i \in 1..n :
                      LET p == splitPublish(config.PublishedPorts[i]).p IN
                      /\ Accepted(config.PublishedPorts[i])
                      /\ flags[i] = Itoa(p.host) \o <<":">> \o Itoa(p.guest) \o <<"/">> \o p.protocol
                      /\ clauses[i] = <<"h","o","s","t","f","w","d","=">> \o p.protocol \o <<":",":">> \o Itoa(p.guest)
                                      \o <<"-",":">> \o Itoa(p.guest)
                      /\ Split(flags[i], ":")[2] = Split(clauses[i], ":")[4] \o <<"/">> \o p.protocol

C10_Witness ==
    /\ config.Containerized
    /\ Hypervisors # {}
    /\ config.PublishedPorts = <<<<"8","0","8","0",":","8","0","/","U","D","P">>, <<"2","2","2","2",":","2","2">>>>
    /\ After(spawned[Len(spawned)].args, <<"-","p">>) = <<<<"8","0","8","0",":","8","0","/","u","d","p">>, <<"2","2","2","2",":","2","2","/","t","c","p">>>>

=============================================================================
